---- MODULE Spec2Model ----
(***************************************************************************)
(* A model of the WHOIS proxy server.  The repository holds three          *)
(* revisions of the same server file:                                      *)
(*   src/unnamed/part_000  "basic":   one whois.lookup, 500 on any error   *)
(*   src/whois-proxy.js    "proxy":   one whois.lookup, 504 on timeout     *)
(*   src/unnamed/part_001  "twotier": whois.lookup, then the system whois  *)
(*                                    command through execFile             *)
(* Exactly one of them is the running server; `variant` says which.        *)
(*                                                                         *)
(* JavaScript strings are modelled as sequences of one-character strings,  *)
(* so that toLowerCase, includes, trim and the regular expressions are     *)
(* computed character by character.                                        *)
(***************************************************************************)
EXTENDS Integers, Sequences, FiniteSets, TLC

\* ------------------------------------------------------------------------
\* Strings
\* ------------------------------------------------------------------------

LowerLetters ==
  {"a","b","c","d","e","f","g","h","i","j","k","l","m",
   "n","o","p","q","r","s","t","u","v","w","x","y","z"}

UpperLetters ==
  {"A","B","C","D","E","F","G","H","I","J","K","L","M",
   "N","O","P","Q","R","S","T","U","V","W","X","Y","Z"}

Digits == {"0","1","2","3","4","5","6","7","8","9"}

\* The lowercase letter of each uppercase letter.
LowerOf ==
  ("A" :> "a") @@ ("B" :> "b") @@ ("C" :> "c") @@ ("D" :> "d") @@
  ("E" :> "e") @@ ("F" :> "f") @@ ("G" :> "g") @@ ("H" :> "h") @@
  ("I" :> "i") @@ ("J" :> "j") @@ ("K" :> "k") @@ ("L" :> "l") @@
  ("M" :> "m") @@ ("N" :> "n") @@ ("O" :> "o") @@ ("P" :> "p") @@
  ("Q" :> "q") @@ ("R" :> "r") @@ ("S" :> "s") @@ ("T" :> "t") @@
  ("U" :> "u") @@ ("V" :> "v") @@ ("W" :> "w") @@ ("X" :> "x") @@
  ("Y" :> "y") @@ ("Z" :> "z")

\* String.prototype.toLowerCase
toLowerCase(s) ==
  [i \in 1..Len(s) |-> IF s[i] \in UpperLetters THEN LowerOf[s[i]] ELSE s[i]]

\* String.prototype.includes
includes(s, sub) ==
  \E i \in 1..(Len(s) - Len(sub) + 1) : SubSeq(s, i, i + Len(sub) - 1) = sub

\* The characters String.prototype.trim strips (those the inputs can hold).
WhiteSpace == {" ", "\t", "\n", "\r"}

\* String.prototype.trim
trim(s) ==
  LET keep == {i \in 1..Len(s) : s[i] \notin WhiteSpace}
  IN  IF keep = {} THEN << >>
      ELSE SubSeq(s, CHOOSE i \in keep : \A j \in keep : i <= j,
                     CHOOSE i \in keep : \A j \in keep : i >= j)

\* The characters the regular expression dot does not match.
LineTerminators == {"\n", "\r"}

\* ------------------------------------------------------------------------
\* Regular expressions of the form /(?:L1|L2|...): (.+)/i
\* ------------------------------------------------------------------------

\* The positions j of text where ": " stands, followed by at least one
\* character of the same line: where the tail ": (.+)" of an expression
\* matches.
TailStarts(text) ==
  {j \in 1..(Len(text) - 2) :
     /\ text[j] = ":"
     /\ text[j + 1] = " "
     /\ text[j + 2] \notin LineTerminators}

\* The greedy group (.+) starting at position j: the rest of the line.
Capture(text, j) ==
  LET ends == {k \in j..Len(text) : text[k] \in LineTerminators}
      last == IF ends = {} THEN Len(text)
              ELSE (CHOOSE k \in ends : \A m \in ends : k <= m) - 1
  IN  SubSeq(text, j, last)

\* String.prototype.match with such an expression: the leftmost position of
\* the text where some alternative matches, and there the first alternative
\* in the listed order.  found = FALSE stands for null.
RegexMatch(text, labels) ==
  LET tails == TailStarts(text)
      cand == {c \in tails \X (1..Len(labels)) :
                 /\ c[1] - Len(labels[c[2]]) >= 1
                 /\ toLowerCase(SubSeq(text, c[1] - Len(labels[c[2]]), c[1] - 1))
                      = toLowerCase(labels[c[2]])}
      start(c) == c[1] - Len(labels[c[2]])
  IN  IF cand = {} THEN [found |-> FALSE, group1 |-> << >>]
      ELSE LET best == CHOOSE c \in cand : \A o \in cand :
                         \/ start(c) < start(o)
                         \/ start(c) = start(o) /\ c[2] <= o[2]
           IN  [found |-> TRUE, group1 |-> Capture(text, best[1] + 2)]

Unknown ==
  <<"U","n","k","n","o","w","n">>

InvalidData ==
  <<"I","n","v","a","l","i","d"," ","d","a","t","a">>

creationDateRegex ==
  << <<"C","r","e","a","t","i","o","n"," ","D","a","t","e">>,
     <<"R","e","g","i","s","t","e","r","e","d"," ","o","n">>,
     <<"R","e","g","i","s","t","r","a","t","i","o","n"," ","D","a","t","e">>,
     <<"R","e","g","i","s","t","r","a","t","i","o","n"," ","T","i","m","e">>,
     <<"C","r","e","a","t","e","d"," ","O","n">>,
     <<"c","r","e","a","t","e","-","d","a","t","e">> >>

expirationDateRegex ==
  << <<"R","e","g","i","s","t","r","y"," ","E","x","p","i","r","y"," ","D","a",
  "t","e">>,
     <<"E","x","p","i","r","a","t","i","o","n"," ","D","a","t","e">>,
     <<"E","x","p","i","r","y"," ","D","a","t","e">>,
     <<"R","e","g","i","s","t","r","a","r"," ","R","e","g","i","s","t","r","a",
  "t","i","o","n"," ","E","x","p","i","r","a","t","i","o","n"," ","D","a",
  "t","e">>,
     <<"E","x","p","i","r","a","t","i","o","n"," ","T","i","m","e">>,
     <<"p","a","i","d","-","t","i","l","l">>,
     <<"v","a","l","i","d","-","u","n","t","i","l">> >>

registrarRegex ==
  << <<"R","e","g","i","s","t","r","a","r">> >>

sponsoringRegistrarRegex ==
  << <<"S","p","o","n","s","o","r","i","n","g"," ","R","e","g","i","s","t","r",
  "a","r">> >>

registrarNameRegex ==
  << <<"R","e","g","i","s","t","r","a","r"," ","N","a","m","e">> >>

\* /(?:Creation|Registration) (?:Date|Time): (.+)/i, its four alternatives
basicCreationDateRegex ==
  << <<"C","r","e","a","t","i","o","n"," ","D","a","t","e">>,
     <<"C","r","e","a","t","i","o","n"," ","T","i","m","e">>,
     <<"R","e","g","i","s","t","r","a","t","i","o","n"," ","D","a","t","e">>,
     <<"R","e","g","i","s","t","r","a","t","i","o","n"," ","T","i","m","e">> >>

\* /(?:Expiration) (?:Date|Time): (.+)/i, its two alternatives
basicExpirationDateRegex ==
  << <<"E","x","p","i","r","a","t","i","o","n"," ","D","a","t","e">>,
     <<"E","x","p","i","r","a","t","i","o","n"," ","T","i","m","e">> >>


\* ------------------------------------------------------------------------
\* Field extractors.  whoisData is [isString, text]: the lookup's data, and
\* whether typeof data is 'string'.
\* ------------------------------------------------------------------------

\* What an extractor does: it returns a string (threw = FALSE) or throws.
Returned(s) == [threw |-> FALSE, value |-> s]

Thrown == [threw |-> TRUE, value |-> << >>]

\* extractCreationDate / extractExpirationDate of part_001 and whois-proxy.js
extractDate(whoisData, regex) ==
  IF ~whoisData.isString THEN Returned(InvalidData)
  ELSE LET match == RegexMatch(whoisData.text, regex)
       IN  IF match.found /\ match.group1 # << >>
             THEN Returned(trim(match.group1))
             ELSE Returned(Unknown)

extractCreationDate(whoisData) == extractDate(whoisData, creationDateRegex)

extractExpirationDate(whoisData) == extractDate(whoisData, expirationDateRegex)

\* extractRegistrar of part_001 and whois-proxy.js: three expressions in turn
extractRegistrar(whoisData) ==
  IF ~whoisData.isString THEN Returned(InvalidData)
  ELSE LET m1 == RegexMatch(whoisData.text, registrarRegex)
           m2 == RegexMatch(whoisData.text, sponsoringRegistrarRegex)
           m3 == RegexMatch(whoisData.text, registrarNameRegex)
       IN  IF m1.found /\ m1.group1 # << >> THEN Returned(trim(m1.group1))
           ELSE IF m2.found /\ m2.group1 # << >> THEN Returned(trim(m2.group1))
           ELSE IF m3.found /\ m3.group1 # << >> THEN Returned(trim(m3.group1))
           ELSE Returned(Unknown)

\* The extractors of part_000 have no type guard: whoisData.match(...) on a
\* value that is not a string throws a TypeError.  The dates are not trimmed.
basicExtractDate(whoisData, regex) ==
  IF ~whoisData.isString THEN Thrown
  ELSE LET match == RegexMatch(whoisData.text, regex)
       IN  IF match.found THEN Returned(match.group1) ELSE Returned(Unknown)

basicExtractCreationDate(whoisData) ==
  basicExtractDate(whoisData, basicCreationDateRegex)

basicExtractExpirationDate(whoisData) ==
  basicExtractDate(whoisData, basicExpirationDateRegex)

basicExtractRegistrar(whoisData) ==
  IF ~whoisData.isString THEN Thrown
  ELSE LET match == RegexMatch(whoisData.text, registrarRegex)
       IN  IF match.found THEN Returned(trim(match.group1)) ELSE Returned(Unknown)

\* ------------------------------------------------------------------------
\* Configuration
\* ------------------------------------------------------------------------

\* new NodeCache({ stdTTL: 3600 }): seconds an entry lives
stdTTL == 3600

\* rateLimit({ windowMs: 15 * 60 * 1000 }), in seconds
windowSeconds == 900

\* rateLimit({ max: 100 })
max == 100

\* domain.length > 255
MaxDomainLength == 255

\* The three revisions of the server file.
Variants == {"basic", "proxy", "twotier"}

\* ------------------------------------------------------------------------
\* Bounds of the model and the inputs it draws from
\* ------------------------------------------------------------------------

\* Requests received in one behaviour.
MaxReqs == 2

\* Steps of the clock in one behaviour.
MaxTicks == 1

\* Client addresses (req.ip).
Clients == {"10.0.0.1", "10.0.0.2"}

\* The client that has used all but one request of its window.
BusyClient == "10.0.0.1"

DomainLower ==
  <<"a",".","b">>

DomainUpper ==
  <<"A",".","b">>

DomainBad ==
  <<"a"," ","b","!">>

\* A domain of MaxDomainLength + 1 allowed characters.
DomainLong == [i \in 1..(MaxDomainLength + 1) |-> "a"]

\* Values of req.params.domain.
Domains == {DomainLower, DomainUpper, DomainBad, DomainLong}

\* Seconds the clock may advance in one step.
Deltas == {1, stdTTL, stdTTL + 1}

MsgLookupTimeout ==
  <<"l","o","o","k","u","p",":"," ","t","i","m","e","o","u","t">>

MsgConnectTimedOut ==
  <<"c","o","n","n","e","c","t"," ","E","T","I","M","E","D","O","U","T">>

MsgNotFound ==
  <<"g","e","t","a","d","d","r","i","n","f","o"," ","E","N","O","T","F","O",
    "U","N","D">>

ETIMEDOUT ==
  <<"E","T","I","M","E","D","O","U","T">>

ENOTFOUND ==
  <<"E","N","O","T","F","O","U","N","D">>

ENOENT ==
  <<"E","N","O","E","N","T">>

MsgCommandFailed ==
  <<"C","o","m","m","a","n","d"," ","f","a","i","l","e","d",":"," ","w","h",
    "o","i","s">>

MsgSpawnFailed ==
  <<"s","p","a","w","n"," ","w","h","o","i","s"," ","E","N","O","E","N","T">>

\* No error yet (err of a request whose lookup has not failed).
NoError == [message |-> << >>, code |-> << >>, killed |-> FALSE]

\* Errors whois.lookup passes to its callback; code << >> is no code.
LookupErrors ==
  { [message |-> MsgLookupTimeout,   code |-> << >>,    killed |-> FALSE],
    [message |-> MsgConnectTimedOut, code |-> ETIMEDOUT, killed |-> FALSE],
    [message |-> MsgNotFound,        code |-> ENOTFOUND, killed |-> FALSE] }

StderrText ==
  <<"N","o"," ","w","h","o","i","s"," ","s","e","r","v","e","r"," ","\n">>

\* What execFile passes to its callback when the command failed: the error
\* and what the child process wrote to stderr.
ExecFailures ==
  { [error |-> [message |-> MsgCommandFailed, code |-> << >>, killed |-> TRUE],
     stderr |-> << >>],
    [error |-> [message |-> MsgSpawnFailed, code |-> ENOENT, killed |-> FALSE],
     stderr |-> StderrText] }

RawTextA ==
  <<"C","r","e","a","t","i","o","n"," ","D","a","t","e",":"," ","2","0","2",
    "0","-","0","1","-","1","5","\r","\n","R","e","g","i","s","t","r","a",
    "r",":"," "," ","E","x","a","m","p","l","e"," ","I","n","c","."," ",
    "\r","\n">>

RawTextB ==
  <<"S","p","o","n","s","o","r","i","n","g"," ","R","e","g","i","s","t","r",
    "a","r",":"," ","Y","\n","R","e","g","i","s","t","r","y"," ","E","x",
    "p","i","r","y"," ","D","a","t","e",":"," ","2","0","3","0","-","0","1",
    "-","0","1">>

\* No data yet (data of a request whose lookup has not succeeded).
NoData == [isString |-> FALSE, text |-> << >>]

\* A value that is not a string (typeof data !== 'string').
NonString == [isString |-> FALSE, text |-> <<"{", "}">>]

\* Data a successful lookup passes to its callback.
RawData ==
  { [isString |-> TRUE, text |-> RawTextA],
    [isString |-> TRUE, text |-> RawTextB],
    NonString }

UnknownNodeWhoisError ==
  <<"U","n","k","n","o","w","n"," ","e","r","r","o","r"," ","d","u","r","i",
    "n","g"," ","n","o","d","e","-","w","h","o","i","s"," ","l","o","o","k",
    "u","p">>

CodeOpen ==
  <<" ","(","C","o","d","e",":"," ">>

CodeClose ==
  <<")">>

timeout ==
  <<"t","i","m","e","o","u","t">>

WhoisLookupFailed ==
  <<"W","H","O","I","S"," ","l","o","o","k","u","p"," ","f","a","i","l","e",
    "d">>

\* `WHOIS lookup timed out after ${WHOIS_LOOKUP_TIMEOUT}ms using options ${JSON.stringify(whoisOptions)}: `
TimedOutPrefix ==
  <<"W","H","O","I","S"," ","l","o","o","k","u","p"," ","t","i","m","e","d",
    " ","o","u","t"," ","a","f","t","e","r"," ","2","0","0","0","0","m","s",
    " ","u","s","i","n","g"," ","o","p","t","i","o","n","s"," ","{","\"",
    "t","i","m","e","o","u","t","\"",":","2","0","0","0","0",",","\"","s",
    "e","r","v","e","r","\"",":","\"","w","h","o","i","s",".","p","i","r",
    ".","o","r","g","\"",",","\"","f","o","l","l","o","w","\"",":","0","}",
    ":"," ">>

\* The message of the TypeError a call of match on a non-string throws.
TypeErrorMessage ==
  <<"w","h","o","i","s","D","a","t","a",".","m","a","t","c","h"," ","i","s",
    " ","n","o","t"," ","a"," ","f","u","n","c","t","i","o","n">>

\* ------------------------------------------------------------------------
\* State
\* ------------------------------------------------------------------------

VARIABLES
  variant,  \* which revision of the server file is running
  cache,    \* the NodeCache: key -> [present, v, t, at], the value, the time
            \* of expiry and the time cache.set stored it
  reqs,     \* the requests received so far, in order of arrival
  hits,     \* the limiter's count of each client address in this window
  now,      \* the clock, in seconds since the server started
  ticks,    \* steps the clock has taken
  ex        \* the extractors called on their own: the text and the results

vars == <<variant, cache, reqs, hits, now, ticks, ex>>

\* A key the cache does not hold.
Absent == [present |-> FALSE, v |-> [pending |-> TRUE], t |-> 0, at |-> 0]

\* The body of a request that has not been answered.
NoBody == [pending |-> TRUE]

\* An extractor that has not been called.
NotCalled == [threw |-> FALSE, value |-> << >>]

\* No extractor is being called on its own.
NoText ==
  [lines |-> << >>, whoisData |-> NoData, called |-> {},
   creationDate |-> NotCalled, expirationDate |-> NotCalled,
   registrar |-> NotCalled]

\* The null of JSON, and a string, as a value of one field.
Null == [isNull |-> TRUE, text |-> << >>]

Str(s) == [isNull |-> FALSE, text |-> s]

\* ------------------------------------------------------------------------
\* The cache (node-cache) and the limiter (express-rate-limit)
\* ------------------------------------------------------------------------

\* A cache whose entries never expire.
LiveForever(entry, time) == entry.present

\* An entry cache.get still returns: node-cache drops an entry whose time of
\* expiry lies before the clock.
Live(entry, time) == entry.present /\ ~(entry.t < time)

\* A cache.get that never finds anything.
cacheGetNothing(c, key, time) == [found |-> FALSE, value |-> NoBody]

\* cache.get(key): the value, or found = FALSE for undefined
cacheGet(c, key, time) ==
  IF Live(c[key], time) THEN [found |-> TRUE, value |-> c[key].v]
  ELSE [found |-> FALSE, value |-> NoBody]

\* A cache.set that keeps the entry a key already has.
cacheSetFirstWins(c, key, value, time) ==
  IF c[key].present THEN c
  ELSE [c EXCEPT ![key] = [present |-> TRUE, v |-> value,
                           t |-> time + stdTTL, at |-> time]]

\* A cache.set that folds its key to lower case.
cacheSetLowerKey(c, key, value, time) ==
  [c EXCEPT ![toLowerCase(key)] = [present |-> TRUE, v |-> value,
                                   t |-> time + stdTTL, at |-> time]]

\* cache.set(key, value): stored for stdTTL seconds, overwriting the entry
cacheSet(c, key, value, time) ==
  [c EXCEPT ![key] = [present |-> TRUE, v |-> value, t |-> time + stdTTL,
                      at |-> time]]

\* What cache.get leaves behind: an expired entry it met is deleted.
cacheAfterGet(c, key, time) ==
  IF Live(c[key], time) THEN c ELSE [c EXCEPT ![key] = Absent]

\* A limiter that rejects the request that reaches the ceiling.
limiterAllowsBelow(current) == current < max

\* The limiter lets the request through: its count, this request included,
\* is at most max.
limiterAllows(current) == current <= max

\* The limiter's message option.
limiterMessage ==
  IF variant = "basic" THEN "Too many requests, please try again later."
  ELSE "Too many requests from this IP, please try again after 15 minutes"

\* ------------------------------------------------------------------------
\* The handler of GET /whois/:domain
\* ------------------------------------------------------------------------

\* A request as the handler sees it on arrival.  lookups and execs count the
\* calls of whois.lookup and of execFile made for it; err, data and sysErr
\* are what the callbacks were called with; sent counts the responses sent.
NewReq(ip, domain) ==
  [ip |-> ip, domain |-> domain, requestTime |-> now, pc |-> "new",
   status |-> 0, body |-> NoBody, sent |-> 0, doneTime |-> 0,
   err |-> NoError, nodeWhoisErrorDetails |-> << >>, data |-> NoData,
   sysErr |-> NoError, lookups |-> 0, execs |-> 0]

\* res.status(status).json(body)
Respond(r, status, body) ==
  [r EXCEPT !.pc = "done", !.status = status, !.body = body,
            !.sent = @ + 1, !.doneTime = now]

\* /^[a-zA-Z0-9.-]+$/.test(domain)
domainRegexTest(domain) ==
  /\ Len(domain) >= 1
  /\ \A i \in 1..Len(domain) :
       domain[i] \in LowerLetters \cup UpperLetters \cup Digits \cup {".", "-"}

\* An allow-list check without the length test.
domainAllowedAnyLength(domain) ==
  ~(\/ ~domainRegexTest(domain)
    \/ includes(domain, <<" ">>))

\* The allow-list check ahead of the system command: the negation of
\* !regex.test(domain) || domain.includes(' ') || domain.length > 255
domainAllowed(domain) ==
  ~(\/ ~domainRegexTest(domain)
    \/ includes(domain, <<" ">>)
    \/ Len(domain) > MaxDomainLength)

\* err.message && (err.message.toLowerCase().includes('timeout')
\*                 || err.code === 'ETIMEDOUT')
isTimeout(err) ==
  /\ err.message # << >>
  /\ \/ includes(toLowerCase(err.message), timeout)
     \/ err.code = ETIMEDOUT

\* err.message || 'Unknown error during node-whois lookup', then the code
errorDetailsOf(err) ==
  LET base == IF err.message # << >> THEN err.message
              ELSE UnknownNodeWhoisError
  IN  IF err.code # << >> THEN base \o CodeOpen \o err.code \o CodeClose
      ELSE base

\* A handler that stores the failure body when an extractor throws.
StoresFailure(creationDate, expirationDate, registrar, rawData, domainName) ==
  IF creationDate.threw \/ expirationDate.threw \/ registrar.threw
    THEN [store |-> TRUE, status |-> 500,
          body |-> [error |-> "Error processing WHOIS data",
                    details |-> TypeErrorMessage]]
    ELSE [store |-> TRUE, status |-> 200,
          body |-> [domain |-> domainName,
                    creationDate |-> creationDate.value,
                    expirationDate |-> expirationDate.value,
                    registrar |-> registrar.value,
                    rawData |-> rawData]]

\* The LookupResult, or the answer of the catch block when an extractor
\* threw; store says whether cache.set is reached.
Processed(creationDate, expirationDate, registrar, rawData, domainName) ==
  IF creationDate.threw \/ expirationDate.threw \/ registrar.threw
    THEN [store |-> FALSE, status |-> 500,
          body |-> [error |-> "Error processing WHOIS data",
                    details |-> TypeErrorMessage]]
    ELSE [store |-> TRUE, status |-> 200,
          body |-> [domain |-> domainName,
                    creationDate |-> creationDate.value,
                    expirationDate |-> expirationDate.value,
                    registrar |-> registrar.value,
                    rawData |-> rawData]]

\* A processWhoisData that applies the allow-list to every domain.
processWhoisDataChecksDomain(rawData, domainName) ==
  IF ~domainAllowed(domainName)
    THEN [store |-> FALSE, status |-> 400,
          body |-> [error |-> "Invalid domain format for system command"]]
    ELSE Processed(extractCreationDate(rawData),
                   extractExpirationDate(rawData),
                   extractRegistrar(rawData), rawData, domainName)

\* processWhoisData of part_001
processWhoisData(rawData, domainName) ==
  Processed(extractCreationDate(rawData), extractExpirationDate(rawData),
            extractRegistrar(rawData), rawData, domainName)

\* The success branch of the callback of whois-proxy.js
proxyProcess(data, domain) ==
  Processed(extractCreationDate(data), extractExpirationDate(data),
            extractRegistrar(data), data, domain)

\* The success branch of the callback of part_000
basicProcess(data, domain) ==
  Processed(basicExtractCreationDate(data), basicExtractExpirationDate(data),
            basicExtractRegistrar(data), data, domain)

\* The error branch of the callback of part_000
basicOnError(r, err) ==
  Respond([r EXCEPT !.err = err], 500,
          [error |-> "WHOIS lookup failed", details |-> err.message])

\* The error branch of the callback of whois-proxy.js
proxyOnError(r, err) ==
  LET withMessage == IF err.message # << >> THEN err.message
                     ELSE WhoisLookupFailed
      errorDetails == IF err.code # << >>
                        THEN withMessage \o CodeOpen \o err.code \o CodeClose
                        ELSE withMessage
  IN  IF isTimeout(err)
        THEN Respond([r EXCEPT !.err = err], 504,
                     [error |-> "WHOIS lookup timed out from application",
                      details |-> TimedOutPrefix \o errorDetails])
        ELSE Respond([r EXCEPT !.err = err], 500,
                     [error |-> "WHOIS lookup failed",
                      details |-> errorDetails])

\* An error branch whose 400 does not return: the response is sent and the
\* system command is started all the same.
twotierOnErrorNoReturn(r, err) ==
  LET failed == [r EXCEPT !.err = err,
                          !.nodeWhoisErrorDetails = errorDetailsOf(err)]
      answered == IF ~domainAllowed(r.domain)
                    THEN Respond(failed, 400,
                           [error |-> "Invalid domain format for system command"])
                    ELSE failed
  IN  [answered EXCEPT !.pc = "exec", !.execs = @ + 1]

\* An error branch that tries whois.lookup again.
twotierOnErrorRetry(r, err) ==
  [r EXCEPT !.err = err, !.lookups = @ + 1]

\* The error branch of the callback of part_001: 400 when the domain fails
\* the allow-list, otherwise execFile('whois', [domain], ...) is started.
twotierOnError(r, err) ==
  LET failed == [r EXCEPT !.err = err,
                          !.nodeWhoisErrorDetails = errorDetailsOf(err)]
  IN  IF ~domainAllowed(r.domain)
        THEN Respond(failed, 400,
                     [error |-> "Invalid domain format for system command"])
        ELSE [failed EXCEPT !.pc = "exec", !.execs = @ + 1]

\* An error branch that reports the system command's error alone.
execOnErrorAlone(r, systemCmdError, stderr) ==
  Respond([r EXCEPT !.sysErr = systemCmdError], 500,
          [error |-> "WHOIS lookup failed using both library and system command",
           library_error |-> systemCmdError.message,
           system_command_error |-> systemCmdError.message,
           system_command_stderr |->
             IF stderr # << >> THEN Str(trim(stderr)) ELSE Null])

\* The error branch of the callback of execFile in part_001
execOnError(r, systemCmdError, stderr) ==
  Respond([r EXCEPT !.sysErr = systemCmdError], 500,
          [error |-> "WHOIS lookup failed using both library and system command",
           library_error |-> r.nodeWhoisErrorDetails,
           system_command_error |-> systemCmdError.message,
           system_command_stderr |->
             IF stderr # << >> THEN Str(trim(stderr)) ELSE Null])

\* ------------------------------------------------------------------------
\* Actions
\* ------------------------------------------------------------------------

\* The server is running one of the revisions with an empty cache and no
\* request in flight; in the current window the limiter has counted max - 1
\* requests of BusyClient and none of the other client.
Init ==
  /\ variant \in Variants
  /\ cache = [d \in Domains |-> Absent]
  /\ reqs = << >>
  /\ hits = [c \in Clients |-> IF c = BusyClient THEN max - 1 ELSE 0]
  /\ now = 0
  /\ ticks = 0
  /\ ex = NoText

\* app.use(limiter): the request is over the ceiling and gets the limiter's
\* answer; the route is not reached.
Limited(ip, domain) ==
  /\ Len(reqs) < MaxReqs
  /\ ~limiterAllows(hits[ip] + 1)
  /\ hits' = [hits EXCEPT ![ip] = @ + 1]
  /\ reqs' = Append(reqs, Respond(NewReq(ip, domain), 429,
                                  [message |-> limiterMessage]))
  /\ UNCHANGED <<ex, variant, cache, now, ticks>>

\* The route, cache hit: if (cachedData) return res.json(cachedData)
CacheHit(ip, domain) ==
  /\ Len(reqs) < MaxReqs
  /\ limiterAllows(hits[ip] + 1)
  /\ cacheGet(cache, domain, now).found
  /\ hits' = [hits EXCEPT ![ip] = @ + 1]
  /\ reqs' = Append(reqs, Respond(NewReq(ip, domain), 200,
                                  cacheGet(cache, domain, now).value))
  /\ UNCHANGED <<ex, variant, cache, now, ticks>>

\* The route, cache miss: whois.lookup(domain, ..., callback) is started
CacheMiss(ip, domain) ==
  /\ Len(reqs) < MaxReqs
  /\ limiterAllows(hits[ip] + 1)
  /\ ~cacheGet(cache, domain, now).found
  /\ hits' = [hits EXCEPT ![ip] = @ + 1]
  /\ cache' = cacheAfterGet(cache, domain, now)
  /\ reqs' = Append(reqs, [NewReq(ip, domain) EXCEPT !.pc = "lookup",
                                                     !.lookups = @ + 1])
  /\ UNCHANGED <<ex, variant, now, ticks>>

\* The callback of whois.lookup, called with an error
LookupFails(i, err) ==
  /\ reqs[i].pc = "lookup"
  /\ reqs' = [reqs EXCEPT ![i] =
                CASE variant = "basic"   -> basicOnError(@, err)
                  [] variant = "proxy"   -> proxyOnError(@, err)
                  [] variant = "twotier" -> twotierOnError(@, err)]
  /\ UNCHANGED <<ex, variant, cache, hits, now, ticks>>

\* The callback of whois.lookup, called with data
LookupSucceeds(i, data) ==
  /\ reqs[i].pc = "lookup"
  /\ LET p == CASE variant = "basic"   -> basicProcess(data, reqs[i].domain)
                [] variant = "proxy"   -> proxyProcess(data, reqs[i].domain)
                [] variant = "twotier" -> processWhoisData(data, reqs[i].domain)
     IN  /\ reqs' = [reqs EXCEPT ![i] =
                       Respond([@ EXCEPT !.data = data], p.status, p.body)]
         /\ cache' = IF p.store
                       THEN cacheSet(cache, reqs[i].domain, p.body, now)
                       ELSE cache
  /\ UNCHANGED <<ex, variant, hits, now, ticks>>

\* The callback of execFile, called with an error
ExecFails(i, systemCmdError, stderr) ==
  /\ reqs[i].pc = "exec"
  /\ reqs' = [reqs EXCEPT ![i] = execOnError(@, systemCmdError, stderr)]
  /\ UNCHANGED <<ex, variant, cache, hits, now, ticks>>

\* The callback of execFile, called with the command's output
ExecSucceeds(i, stdout) ==
  /\ reqs[i].pc = "exec"
  /\ LET p == processWhoisData(stdout, reqs[i].domain)
     IN  /\ reqs' = [reqs EXCEPT ![i] =
                       Respond([@ EXCEPT !.data = stdout], p.status, p.body)]
         /\ cache' = IF p.store
                       THEN cacheSet(cache, reqs[i].domain, p.body, now)
                       ELSE cache
  /\ UNCHANGED <<ex, variant, hits, now, ticks>>

\* Time passes.  The limiter's counts are reset at the end of each window.
Tick(delta) ==
  /\ ticks < MaxTicks
  /\ ticks' = ticks + 1
  /\ now' = now + delta
  /\ hits' = IF (now + delta) \div windowSeconds > now \div windowSeconds
               THEN [c \in Clients |-> 0]
               ELSE hits
  /\ UNCHANGED <<ex, variant, cache, reqs>>

Next ==
  \/ \E ip \in Clients, domain \in Domains : Limited(ip, domain)
  \/ \E ip \in Clients, domain \in Domains : CacheHit(ip, domain)
  \/ \E ip \in Clients, domain \in Domains : CacheMiss(ip, domain)
  \/ \E i \in 1..Len(reqs), err \in LookupErrors : LookupFails(i, err)
  \/ \E i \in 1..Len(reqs), data \in RawData : LookupSucceeds(i, data)
  \/ \E i \in 1..Len(reqs), f \in ExecFailures :
       ExecFails(i, f.error, f.stderr)
  \/ \E i \in 1..Len(reqs), stdout \in {d \in RawData : d.isString} :
       ExecSucceeds(i, stdout)
  \/ \E delta \in Deltas : Tick(delta)

Spec == Init /\ [][Next]_vars

\* Some callback of a started lookup is called.
Callback ==
  \/ \E i \in 1..Len(reqs), err \in LookupErrors : LookupFails(i, err)
  \/ \E i \in 1..Len(reqs), data \in RawData : LookupSucceeds(i, data)
  \/ \E i \in 1..Len(reqs), f \in ExecFailures :
       ExecFails(i, f.error, f.stderr)
  \/ \E i \in 1..Len(reqs), stdout \in {d \in RawData : d.isString} :
       ExecSucceeds(i, stdout)

\* The server when whois.lookup and execFile always call their callbacks,
\* as both do within their timeout.
FairSpec == Spec /\ WF_vars(Callback)

\* ------------------------------------------------------------------------
\* The extractors on their own
\* ------------------------------------------------------------------------

\* Lines a WHOIS text is made of in one behaviour.
MaxLines == 2

LineRegistrar ==
  <<"R","e","g","i","s","t","r","a","r",":"," "," ","X"," ">>

LineSponsoring ==
  <<"S","p","o","n","s","o","r","i","n","g"," ","R","e","g","i","s","t","r",
    "a","r",":"," ","Y">>

LineRegistrarName ==
  <<"R","e","g","i","s","t","r","a","r"," ","N","a","m","e",":"," ","Z">>

LineCreation ==
  <<"C","r","e","a","t","i","o","n"," ","D","a","t","e",":"," ","1","9","9",
    "9">>

LineRegistration ==
  <<"R","e","g","i","s","t","r","a","t","i","o","n"," ","D","a","t","e",":",
    " ","2","0","0","1">>

LineExpiry ==
  <<"E","x","p","i","r","y"," ","D","a","t","e",":"," ","2","0","3","0">>

LinePaidTill ==
  <<"p","a","i","d","-","t","i","l","l",":"," ","2","0","3","1">>

LineOther ==
  <<"D","o","m","a","i","n"," ","N","a","m","e",":"," ","a",".","b">>

\* Lines of WHOIS texts.
Lines ==
  {LineRegistrar, LineSponsoring, LineRegistrarName, LineCreation,
   LineRegistration, LineExpiry, LinePaidTill, LineOther}

\* The text whose lines are ls: the lines, each but the last followed by a
\* line feed.
RECURSIVE JoinLines(_)
JoinLines(ls) ==
  IF ls = << >> THEN << >>
  ELSE IF Len(ls) = 1 THEN ls[1]
  ELSE ls[1] \o <<"\n">> \o JoinLines(Tail(ls))

\* WHOIS texts of one to MaxLines lines.
LineSeqs == UNION {[1..n -> Lines] : n \in 1..MaxLines}

\* The extractors of the running revision.
revisionCreationDate(whoisData) ==
  IF variant = "basic" THEN basicExtractCreationDate(whoisData)
  ELSE extractCreationDate(whoisData)

revisionExpirationDate(whoisData) ==
  IF variant = "basic" THEN basicExtractExpirationDate(whoisData)
  ELSE extractExpirationDate(whoisData)

revisionRegistrar(whoisData) ==
  IF variant = "basic" THEN basicExtractRegistrar(whoisData)
  ELSE extractRegistrar(whoisData)

\* The server as in Init, and a WHOIS text for the extractors.
ExtractInit ==
  /\ variant \in Variants
  /\ cache = [d \in Domains |-> Absent]
  /\ reqs = << >>
  /\ hits = [c \in Clients |-> IF c = BusyClient THEN max - 1 ELSE 0]
  /\ now = 0
  /\ ticks = 0
  /\ \E ls \in LineSeqs :
       ex = [NoText EXCEPT !.lines = ls,
               !.whoisData = [isString |-> TRUE, text |-> JoinLines(ls)]]

\* const creationDate = extractCreationDate(rawData)
CallCreationDate ==
  /\ "creationDate" \notin ex.called
  /\ ex' = [ex EXCEPT !.called = @ \cup {"creationDate"},
                      !.creationDate = revisionCreationDate(ex.whoisData)]
  /\ UNCHANGED <<variant, cache, reqs, hits, now, ticks>>

\* const expirationDate = extractExpirationDate(rawData)
CallExpirationDate ==
  /\ "expirationDate" \notin ex.called
  /\ ex' = [ex EXCEPT !.called = @ \cup {"expirationDate"},
                      !.expirationDate = revisionExpirationDate(ex.whoisData)]
  /\ UNCHANGED <<variant, cache, reqs, hits, now, ticks>>

\* const registrar = extractRegistrar(rawData)
CallRegistrar ==
  /\ "registrar" \notin ex.called
  /\ ex' = [ex EXCEPT !.called = @ \cup {"registrar"},
                      !.registrar = revisionRegistrar(ex.whoisData)]
  /\ UNCHANGED <<variant, cache, reqs, hits, now, ticks>>

ExtractNext == CallCreationDate \/ CallExpirationDate \/ CallRegistrar

ExtractSpec == ExtractInit /\ [][ExtractNext]_vars

\* ------------------------------------------------------------------------
\* Vocabulary of the properties
\* ------------------------------------------------------------------------

\* This step a request arrived; New is that request as the step left it.
Arrived == Len(reqs') = Len(reqs) + 1

New == reqs'[Len(reqs')]

\* The arriving request got past the limiter and reached the route.
Admitted == Arrived /\ New.status # 429

\* This step request i was answered.
Completed(i) == reqs[i].pc # "done" /\ reqs'[i].pc = "done"

\* The upstream lookups (whois.lookup and execFile) started for rs.
RECURSIVE Upstream(_)
Upstream(rs) ==
  IF rs = << >> THEN 0
  ELSE Head(rs).lookups + Head(rs).execs + Upstream(Tail(rs))

\* The allow-list as the specification words it: only letters, digits, dot
\* and hyphen, and at most 255 characters.
PassesAllowList(domain) ==
  /\ Len(domain) <= MaxDomainLength
  /\ \A i \in 1..Len(domain) :
       domain[i] \in LowerLetters \cup UpperLetters \cup Digits \cup {".", "-"}

\* A timeout as the specification words it: the message contains 'timeout'
\* case-insensitively or the code is ETIMEDOUT.
NamesTimeout(err) ==
  includes(toLowerCase(err.message), timeout) \/ err.code = ETIMEDOUT

\* ------------------------------------------------------------------------
\* Properties
\* ------------------------------------------------------------------------

\* C1: in the two-tier handler a request whose primary lookup failed and
\* whose domain fails the allow-list is answered 400 and no system command
\* is started for it; the system command is only ever started for a domain
\* that passes the allow-list.
C1_NoSystemCommandForRejectedDomain ==
  variant = "twotier" =>
    \A i \in 1..Len(reqs) :
      /\ (reqs[i].err # NoError /\ ~PassesAllowList(reqs[i].domain)) =>
           /\ reqs[i].execs = 0
           /\ reqs[i].pc = "done"
           /\ reqs[i].status = 400
      /\ reqs[i].execs > 0 => PassesAllowList(reqs[i].domain)

\* A request for the over-long domain and one for the domain with a space
\* were both answered 400 after their primary lookups failed.
C1_Witness ==
  /\ variant = "twotier"
  /\ \E i, j \in 1..Len(reqs) :
       /\ reqs[i].domain = DomainLong /\ reqs[j].domain = DomainBad
       /\ reqs[i].status = 400 /\ reqs[j].status = 400
       /\ reqs[i].err # NoError /\ reqs[j].err # NoError

\* C2: in the revisions that tell timeouts apart (whois-proxy.js) or fall
\* back to the system command (part_001), a lookup that failed because of a
\* timeout - the primary error names a timeout and, where the system
\* command ran, it was killed by its timeout - is answered 504 with details
\* naming the timeout.
C2_TimeoutIs504 ==
  variant # "basic" =>
    \A i \in 1..Len(reqs) :
      ( /\ reqs[i].pc = "done"
        /\ reqs[i].status \notin {200, 400, 429}
        /\ NamesTimeout(reqs[i].err)
        /\ reqs[i].execs > 0 => reqs[i].sysErr.killed ) =>
        /\ reqs[i].status = 504
        /\ "details" \in DOMAIN reqs[i].body
        /\ includes(toLowerCase(reqs[i].body.details), timeout)

\* C3: a request that reaches the route while the cache holds an unexpired
\* entry for its domain is answered 200 with exactly the cached value and
\* starts no upstream lookup; when one earlier request looked the domain up
\* successfully, the body is that request's body.
C3_CacheHitStep ==
  (Admitted /\ Live(cache[New.domain], now)) =>
    /\ New.pc = "done"
    /\ New.status = 200
    /\ New.body = cache[New.domain].v
    /\ New.lookups = 0 /\ New.execs = 0
    /\ Upstream(reqs') = Upstream(reqs)
    /\ LET wrote == {i \in 1..Len(reqs) :
                       /\ reqs[i].domain = New.domain
                       /\ reqs[i].status = 200
                       /\ reqs[i].lookups = 1}
       IN  Cardinality(wrote) = 1 => \A i \in wrote : New.body = reqs[i].body

C3_CacheHit == [][C3_CacheHitStep]_vars

\* Two requests for one domain: the first looked it up, the second, arrived
\* after the first was answered, got the same body without any lookup.
C3_Witness ==
  \E i, j \in 1..Len(reqs) :
    /\ i < j
    /\ reqs[i].domain = reqs[j].domain
    /\ reqs[i].status = 200 /\ reqs[i].lookups = 1
    /\ reqs[j].status = 200 /\ reqs[j].lookups = 0 /\ reqs[j].execs = 0
    /\ reqs[j].body = reqs[i].body
    /\ Upstream(reqs) = 1

\* C4: for every request whois.lookup is started at most once and execFile
\* at most once, and execFile only after the whois.lookup of that request
\* has failed.
C4_OneShotEscalation ==
  \A i \in 1..Len(reqs) :
    /\ reqs[i].lookups <= 1
    /\ reqs[i].execs <= 1
    /\ reqs[i].execs = 1 => (reqs[i].lookups = 1 /\ reqs[i].err # NoError)
    /\ (reqs[i].lookups = 1 /\ reqs[i].pc = "done" /\ reqs[i].err = NoError)
         => reqs[i].execs = 0

\* A request went through both lookups, each once, and was answered.
C4_Witness ==
  \E i \in 1..Len(reqs) :
    /\ reqs[i].lookups = 1 /\ reqs[i].execs = 1
    /\ reqs[i].pc = "done"

\* C5: every failure response (400, 500, 504) is a JSON object with an
\* error field and a details field.
C5_FailureHasErrorAndDetails ==
  \A i \in 1..Len(reqs) :
    (reqs[i].pc = "done" /\ reqs[i].status \in {400, 500, 504}) =>
      /\ "error" \in DOMAIN reqs[i].body
      /\ "details" \in DOMAIN reqs[i].body

\* C6: when the primary lookup failed, the domain passes the allow-list and
\* the system command failed too, the one response is a 500 that carries the
\* text of the primary error, with its code, and the text of the system
\* command's error.
C6_BothErrorsReported ==
  \A i \in 1..Len(reqs) :
    (reqs[i].pc = "done" /\ reqs[i].execs = 1 /\ reqs[i].sysErr # NoError) =>
      /\ reqs[i].status = 500
      /\ "library_error" \in DOMAIN reqs[i].body
      /\ "system_command_error" \in DOMAIN reqs[i].body
      /\ includes(reqs[i].body.library_error, reqs[i].err.message)
      /\ includes(reqs[i].body.library_error, reqs[i].err.code)
      /\ reqs[i].body.system_command_error = reqs[i].sysErr.message

\* Both lookups of a request failed, with different messages.
C6_Witness ==
  \E i \in 1..Len(reqs) :
    /\ reqs[i].pc = "done" /\ reqs[i].execs = 1
    /\ reqs[i].sysErr # NoError /\ reqs[i].err # NoError
    /\ reqs[i].err.message # reqs[i].sysErr.message
    /\ PassesAllowList(reqs[i].domain)

\* C7: a request that reaches the route when more than stdTTL seconds have
\* passed since the entry of its domain was stored is a miss: it starts a
\* fresh lookup and is not answered with the stored value.  When less than
\* stdTTL seconds have passed, the entry is served.
C7_ExpiryStep ==
  (Admitted /\ cache[New.domain].present) =>
    /\ now > cache[New.domain].at + stdTTL =>
         /\ New.pc = "lookup"
         /\ New.lookups = 1
         /\ New.body = NoBody
    /\ now < cache[New.domain].at + stdTTL =>
         /\ New.pc = "done"
         /\ New.status = 200
         /\ New.body = cache[New.domain].v

C7_Expiry == [][C7_ExpiryStep]_vars

\* A request looked a domain up and was answered; more than stdTTL seconds
\* later a request for the same domain started a lookup of its own.
C7_Witness ==
  \E i, j \in 1..Len(reqs) :
    /\ i < j
    /\ reqs[i].domain = reqs[j].domain
    /\ reqs[i].status = 200 /\ reqs[i].lookups = 1
    /\ reqs[j].requestTime > reqs[i].doneTime + stdTTL
    /\ reqs[j].lookups = 1

\* C8: every arriving request is counted for its client address only; it
\* reaches the route when the address had fewer than max requests in the
\* window, and otherwise is rejected by the limiter without touching the
\* cache or starting a lookup, whether or not the cache holds its domain.
C8_RateLimitStep ==
  Arrived =>
    /\ hits'[New.ip] = hits[New.ip] + 1
    /\ \A o \in Clients \ {New.ip} : hits'[o] = hits[o]
    /\ hits[New.ip] < max =>
         \/ New.pc = "lookup" /\ New.lookups = 1
         \/ New.pc = "done" /\ New.status = 200
    /\ hits[New.ip] >= max =>
         /\ New.pc = "done" /\ New.status = 429
         /\ New.lookups = 0 /\ New.execs = 0
         /\ cache' = cache

C8_RateLimit == [][C8_RateLimitStep]_vars

\* The hundredth request of the busy client reached the route and stored
\* its result; the client's next request, for the same domain, later in the
\* same window and with the entry still in the cache, was rejected.
C8_Witness ==
  \E i, j \in 1..Len(reqs) :
    /\ i < j
    /\ reqs[i].ip = BusyClient /\ reqs[j].ip = BusyClient
    /\ reqs[i].domain = reqs[j].domain
    /\ reqs[i].status = 200 /\ reqs[i].lookups = 1
    /\ reqs[i].doneTime < reqs[j].requestTime
    /\ reqs[j].requestTime < windowSeconds
    /\ reqs[j].status = 429

\* C9: every key of the cache is a lowercase string.
C9_KeysLowercase ==
  \A d \in Domains : cache[d].present => d = toLowerCase(d)

\* C10: a request that finds no live entry starts its own lookup, whatever
\* is in flight; a request answered 200 after a lookup has just stored its
\* own result, built from its own data, under its domain; and the cache
\* gets a new value in no other way, so the entry is that of the request
\* answered last.
C10_NoDedupStep ==
  /\ (Admitted /\ ~Live(cache[New.domain], now)) =>
       New.pc = "lookup" /\ New.lookups = 1
  /\ \A i \in 1..Len(reqs) :
       (Completed(i) /\ reqs'[i].status = 200) =>
         /\ cache'[reqs[i].domain].present
         /\ cache'[reqs[i].domain].v = reqs'[i].body
         /\ reqs'[i].body.rawData = reqs'[i].data
         /\ reqs'[i].body.domain = reqs[i].domain
  /\ \A d \in Domains :
       (cache'[d].present /\ cache'[d] # cache[d]) =>
         \E i \in 1..Len(reqs) :
           /\ Completed(i) /\ reqs'[i].status = 200
           /\ reqs[i].domain = d

C10_NoDedup == [][C10_NoDedupStep]_vars

\* Two requests for one domain were in flight together, both lookups
\* succeeded with different data, and the cache holds one of the results.
C10_Witness ==
  /\ now = 0
  /\ \E i, j \in 1..Len(reqs) :
       /\ i # j
       /\ reqs[i].domain = reqs[j].domain
       /\ reqs[i].status = 200 /\ reqs[i].lookups = 1
       /\ reqs[j].status = 200 /\ reqs[j].lookups = 1
       /\ reqs[i].body # reqs[j].body
       /\ cache[reqs[j].domain].v = reqs[j].body

\* C11: a request has been sent no response while it waits for a callback
\* and exactly one, a status with a JSON body, once it is done; the handler
\* is never left in any other way (no exception escapes it); and when every
\* started lookup calls its callback, every request is answered in the end.
C11_Answered(i) ==
  /\ reqs[i].pc \in {"lookup", "exec", "done"}
  /\ reqs[i].pc \in {"lookup", "exec"} =>
       /\ reqs[i].sent = 0
       /\ reqs[i].status = 0
  /\ reqs[i].pc = "done" =>
       /\ reqs[i].sent = 1
       /\ reqs[i].status \in {200, 400, 429, 500, 504}
       /\ reqs[i].body # NoBody

C11_ExactlyOneResponse ==
  /\ [](\A i \in 1..Len(reqs) : C11_Answered(i))
  /\ []<>(\A i \in 1..Len(reqs) : reqs[i].pc = "done")

\* In part_000 an extractor threw on data that is not a string: the
\* exception was caught and the request answered once, with 500; another
\* request was answered once with its result.
C11_Witness ==
  /\ variant = "basic"
  /\ \E i, j \in 1..Len(reqs) :
       /\ reqs[j].data = NonString
       /\ reqs[j].pc = "done" /\ reqs[j].sent = 1 /\ reqs[j].status = 500
       /\ reqs[i].pc = "done" /\ reqs[i].sent = 1 /\ reqs[i].status = 200

\* C12: a lookup that succeeded with data that is not a string is answered
\* 200 with "Invalid data" in all three fields.
C12_NonStringIsInvalidData ==
  \A i \in 1..Len(reqs) :
    (reqs[i].pc = "done" /\ reqs[i].data = NonString) =>
      /\ reqs[i].status = 200
      /\ reqs[i].body.creationDate = InvalidData
      /\ reqs[i].body.expirationDate = InvalidData
      /\ reqs[i].body.registrar = InvalidData

\* A line of the form `Label: value` with a value that is not blank, and
\* its value, trimmed.
IsLabelLine(line, label) ==
  /\ Len(line) > Len(label) + 2
  /\ toLowerCase(SubSeq(line, 1, Len(label))) = toLowerCase(label)
  /\ line[Len(label) + 1] = ":"
  /\ line[Len(label) + 2] = " "
  /\ trim(SubSeq(line, Len(label) + 3, Len(line))) # << >>

LineValue(line, label) == trim(SubSeq(line, Len(label) + 3, Len(line)))

\* The value of the first line of the alternative listed first among the
\* alternatives that have a line.
ListedFirst(lines, labels) ==
  LET has(a) == {k \in 1..Len(lines) : IsLabelLine(lines[k], labels[a])}
      present == {a \in 1..Len(labels) : has(a) # {}}
      a0 == CHOOSE a \in present : \A b \in present : a <= b
      k0 == CHOOSE k \in has(a0) : \A m \in has(a0) : k <= m
  IN  LineValue(lines[k0], labels[a0])

HasListed(lines, labels) ==
  \E a \in 1..Len(labels), k \in 1..Len(lines) :
    IsLabelLine(lines[k], labels[a])

\* C13: for a text with a line `Registrar: X`, X not blank, extractRegistrar
\* of part_001 and whois-proxy.js returns X trimmed, whatever the other
\* lines are.
C13_RegistrarLine ==
  (variant # "basic" /\ "registrar" \in ex.called) =>
    \A k \in 1..Len(ex.lines) :
      IsLabelLine(ex.lines[k], registrarRegex[1]) =>
        ex.registrar = Returned(LineValue(ex.lines[k], registrarRegex[1]))

\* C14: for each field of part_001, when the text has a line for one of the
\* field's alternatives, the result is the value of the alternative listed
\* first among those that have a line, wherever its line stands.
C14_ListedOrder ==
  variant # "basic" =>
    /\ ("creationDate" \in ex.called /\ HasListed(ex.lines, creationDateRegex))
         => ex.creationDate = Returned(ListedFirst(ex.lines, creationDateRegex))
    /\ ("expirationDate" \in ex.called
          /\ HasListed(ex.lines, expirationDateRegex))
         => ex.expirationDate
              = Returned(ListedFirst(ex.lines, expirationDateRegex))
    /\ ("registrar" \in ex.called
          /\ HasListed(ex.lines, registrarRegex \o sponsoringRegistrarRegex
                                   \o registrarNameRegex))
         => ex.registrar
              = Returned(ListedFirst(ex.lines,
                           registrarRegex \o sponsoringRegistrarRegex
                             \o registrarNameRegex))

\* What a reader of the cache sees at a time: the values of the entries
\* still alive.
Contents(c, time) ==
  [d \in Domains |-> IF Live(c[d], time) THEN c[d].v ELSE Null]

\* No request for the domain has been answered 200.
NeverSucceeded(d) ==
  \A i \in 1..Len(reqs) : reqs[i].domain = d => reqs[i].status # 200

\* C15: the step that answers a request 400, 500 or 504, and the step that
\* answers an arriving request from the cache or from the limiter, leave
\* the cache as it was; a missed arrival changes nothing a reader can see;
\* an entry only appears in the step that answers a request for its domain
\* 200 after a lookup; so a domain whose requests all failed has no entry,
\* and the next admitted request for it starts a lookup.
C15_OnlySuccessWritesStep ==
  /\ \A i \in 1..Len(reqs) :
       (Completed(i) /\ reqs'[i].status \in {400, 500, 504}) => cache' = cache
  /\ (Arrived /\ New.pc = "done") => cache' = cache
  /\ Arrived => Contents(cache', now') = Contents(cache, now)
  /\ \A d \in Domains :
       (cache'[d].present /\ cache'[d] # cache[d]) =>
         \E i \in 1..Len(reqs) :
           /\ Completed(i) /\ reqs[i].domain = d
           /\ reqs'[i].status = 200
           /\ reqs'[i].lookups + reqs'[i].execs > 0
  /\ \A d \in Domains : NeverSucceeded(d) => ~cache[d].present
  /\ (Admitted /\ NeverSucceeded(New.domain)) =>
       New.pc = "lookup" /\ New.lookups = 1

C15_OnlySuccessWrites == [][C15_OnlySuccessWritesStep]_vars

\* A request was answered with a failure, and a request for the same domain
\* that arrived later started a lookup of its own; the domain has no entry.
C15_Witness ==
  \E i, j \in 1..Len(reqs) :
    /\ reqs[i].pc = "done" /\ reqs[i].status \in {400, 500, 504}
    /\ reqs[j].domain = reqs[i].domain
    /\ reqs[i].doneTime < reqs[j].requestTime
    /\ reqs[j].lookups = 1
    /\ ~cache[reqs[i].domain].present

\* The LookupResult the running revision builds for a domain from raw data.
IsResultOf(v, d, rawData) ==
  /\ DOMAIN v = {"domain", "creationDate", "expirationDate", "registrar",
                 "rawData"}
  /\ v.domain = d
  /\ v.rawData = rawData
  /\ v.creationDate = revisionCreationDate(rawData).value
  /\ v.expirationDate = revisionExpirationDate(rawData).value
  /\ v.registrar = revisionRegistrar(rawData).value

\* Request i made a lookup for its domain that succeeded.
Succeeded(i) ==
  /\ reqs[i].pc = "done" /\ reqs[i].status = 200
  /\ reqs[i].lookups + reqs[i].execs > 0
  /\ reqs[i].data \in RawData

\* C16: every entry of the cache is, under key d, the LookupResult for d
\* built from the raw data of a successful lookup some request made for d
\* (its domain is d and its three fields are the extractors' values on its
\* rawData); and every 200 answer, fresh or from the cache, is such a
\* LookupResult for the domain of its own request.
C16_CacheIntegrity ==
  /\ \A d \in Domains :
       cache[d].present =>
         \E i \in 1..Len(reqs) :
           /\ reqs[i].domain = d
           /\ Succeeded(i)
           /\ cache[d].v = reqs[i].body
           /\ IsResultOf(cache[d].v, d, reqs[i].data)
  /\ \A i \in 1..Len(reqs) :
       reqs[i].status = 200 =>
         /\ IsResultOf(reqs[i].body, reqs[i].domain, reqs[i].body.rawData)
         /\ \E j \in 1..Len(reqs) :
              /\ reqs[j].domain = reqs[i].domain
              /\ Succeeded(j)
              /\ reqs[j].body = reqs[i].body

\* Two requests for domains that differ only in case were in flight
\* together and both lookups succeeded with different data: each domain has
\* its own entry.
C16_Witness ==
  /\ cache[DomainLower].present /\ cache[DomainUpper].present
  /\ cache[DomainLower].v.rawData # cache[DomainUpper].v.rawData
  /\ \E i, j \in 1..Len(reqs) :
       /\ reqs[i].domain = DomainLower /\ reqs[j].domain = DomainUpper
       /\ reqs[i].lookups = 1 /\ reqs[j].lookups = 1
       /\ reqs[i].requestTime <= reqs[j].doneTime
       /\ reqs[j].requestTime <= reqs[i].doneTime

\* C17: in the two-tier handler the step that answers a request whose
\* primary lookup succeeded answers 200 and stores the answer under the
\* request's domain, whether or not the domain passes the allow-list; a 400
\* is only ever the answer to a failed primary lookup of a domain that fails
\* the allow-list, with no system command started.
C17_AllowListOnFallbackStep ==
  /\ variant = "twotier" =>
       \A i \in 1..Len(reqs) :
         (Completed(i) /\ reqs[i].pc = "lookup" /\ reqs'[i].err = NoError) =>
           /\ reqs'[i].status = 200
           /\ cache'[reqs[i].domain].present
           /\ cache'[reqs[i].domain].v = reqs'[i].body
           /\ reqs'[i].body.domain = reqs[i].domain
  /\ \A i \in 1..Len(reqs) :
       (Completed(i) /\ reqs'[i].status = 400) =>
         /\ variant = "twotier"
         /\ reqs[i].pc = "lookup"
         /\ reqs'[i].err # NoError
         /\ reqs'[i].execs = 0
         /\ ~PassesAllowList(reqs[i].domain)
  /\ \A i \in 1..Len(reqs) :
       reqs[i].status = 400 => ~PassesAllowList(reqs[i].domain)

C17_AllowListOnFallback == [][C17_AllowListOnFallbackStep]_vars

\* In the two-tier handler a request for the domain with a space was
\* answered 200 by its primary lookup and cached under that domain, and
\* another request whose primary lookup failed was answered 400.
C17_Witness ==
  /\ variant = "twotier"
  /\ cache[DomainBad].present
  /\ \E i, j \in 1..Len(reqs) :
       /\ reqs[i].domain = DomainBad
       /\ reqs[i].status = 200 /\ reqs[i].lookups = 1
       /\ reqs[i].err = NoError
       /\ cache[DomainBad].v = reqs[i].body
       /\ ~PassesAllowList(reqs[j].domain)
       /\ reqs[j].status = 400 /\ reqs[j].err # NoError

====
